---- MODULE Spec2Model ----
(***************************************************************************)
(* Transaction processing of mamar-bank (src/transactions/views.py):       *)
(* deposit, withdrawal, loan request and loan payment against the account  *)
(* store and the transaction ledger, with the notifier and the store       *)
(* writes as collaborators that may fail.                                   *)
(***************************************************************************)
EXTENDS Integers, Sequences, FiniteSets, TLC

\* ---------------------------------------------------------------- bounds
MaxAmount == 1
MaxRecords == 2
MaxLoans == 3
MaxCapLoans == 4
MaxBalance == 3
MaxFaults == 1
InitialBalance == 2

\* The accounts of two users.
Accounts == {1, 2}
Amounts == 1..MaxAmount

\* ------------------------------------------------------------- constants
DEPOSIT == "DEPOSIT"
WITHDRAWAL == "WITHDRAWAL"
LOAN == "LOAN"
LOAN_PAID == "LOAN_PAID"

LoanLimit == 3

\* balance: the stored balance of each account.
\* ledger:  the Transaction rows in insertion order; a row's id is its index.
\* last:    the last request and the response it got.
\* faults:  the number of requests so far that met a failing store write.
\* reqs:    the requests in flight when requests are served step by step,
\*          each with the account instance it holds in memory.
VARIABLES balance, ledger, last, faults, reqs

vars == <<balance, ledger, last, faults, reqs>>

\* ---------------------------------------------------------------- helpers
\* The mail environment of one request: DEBUG_EMAIL set, the user has an
\* email address, the template renders and the transport delivers.
GoodMail == [debug |-> FALSE, hasEmail |-> TRUE, transportOk |-> TRUE]
DebugMail == [debug |-> TRUE, hasEmail |-> TRUE, transportOk |-> TRUE]
NoEmail == [debug |-> FALSE, hasEmail |-> FALSE, transportOk |-> TRUE]
BadTransport == [debug |-> FALSE, hasEmail |-> TRUE, transportOk |-> FALSE]

MailEnvs == {GoodMail, DebugMail, NoEmail, BadTransport}

\* The outcome of the store writes of one request: every write succeeds, the
\* write of the account's balance raises, or the write of the ledger row raises.
StoreEnvs == {"ok", "balance_write_fails", "record_write_fails"}

\* The environments of a Deposit or Withdraw request: the mail environment
\* is not consulted when the balance write raises, so one stands for all.
RequestEnvs ==
    {e \in StoreEnvs \X MailEnvs : e[1] = "balance_write_fails" => e[2] = GoodMail}

\* The environments of a RequestLoan request, which writes no balance.
LoanRequestEnvs == {e \in RequestEnvs : e[1] # "balance_write_fails"}

\* send_transaction_email without its try/except.
send_transaction_email_unguarded(mail) ==
    IF mail.debug THEN [raised |-> FALSE, log |-> "debug"]
    ELSE IF ~mail.hasEmail THEN [raised |-> FALSE, log |-> "skipped"]
    ELSE IF mail.transportOk THEN [raised |-> FALSE, log |-> "sent"]
    ELSE [raised |-> TRUE, log |-> "error"]

\* send_transaction_email: returns whether an exception leaves the function
\* and what happened to the message.
send_transaction_email(mail) ==
    IF mail.debug THEN [raised |-> FALSE, log |-> "debug"]
    ELSE IF ~mail.hasEmail THEN [raised |-> FALSE, log |-> "skipped"]
    ELSE IF mail.transportOk THEN [raised |-> FALSE, log |-> "sent"]
    ELSE [raised |-> FALSE, log |-> "error"]

\* The row that saving a valid transaction form inserts: the form's account,
\* the cleaned amount, the view's initial transaction type, the model's
\* default loan_approve and the account's balance at the time of the save.
form_save(led, acct, amount, type, bal) ==
    Append(led, [account |-> acct, amount |-> amount, type |-> type,
                 loan_approve |-> FALSE, balance_after_transaction |-> bal])

\* loan_count without the account filter.
loan_count_any_account(led, acct) ==
    Cardinality({i \in DOMAIN led :
        led[i].type = LOAN /\ led[i].loan_approve})

\* Transaction.objects.filter(account=account, transaction_type=LOAN,
\* loan_approve=True).count()
loan_count(led, acct) ==
    Cardinality({i \in DOMAIN led :
        led[i].account = acct /\ led[i].type = LOAN /\ led[i].loan_approve})

NoOp == [op |-> "none", account |-> 0, amount |-> 0, loan |-> 0,
         result |-> "none", message |-> "none", notify |-> "none",
         store |-> "none"]

Init ==
    /\ balance = [a \in Accounts |-> InitialBalance]
    /\ ledger = <<>>
    /\ last = NoOp
    /\ faults = 0
    /\ reqs = <<>>

Outcome(b, l, res, msg, note, st) ==
    [balance |-> b, ledger |-> l, result |-> res, message |-> msg,
     notify |-> note, store |-> st]

\* ------------------------------------------------------------ Deposit
\* deposit_balance with the sign reversed.
deposit_balance_subtracts(b, amount) == b - amount

\* account.balance += amount
deposit_balance(b, amount) == b + amount

DepositMoneyView_get_initial == DEPOSIT

DepositMoneyView_form_valid(bal, led, acct, amount, store, mail) ==
    LET nb == [bal EXCEPT ![acct] = deposit_balance(bal[acct], amount)]
        m == send_transaction_email(mail)
    IN  IF store = "balance_write_fails"
        THEN Outcome(bal, led, "failed", "error", "none", "balance_write_failed")
        ELSE IF m.raised
        THEN Outcome(nb, led, "failed", "error", m.log, "ok")
        ELSE IF store = "record_write_fails"
        THEN Outcome(nb, led, "fault", "success", m.log, "record_write_failed")
        ELSE Outcome(nb,
                     form_save(led, acct, amount, DepositMoneyView_get_initial, nb[acct]),
                     "success", "success", m.log, "ok")

\* ------------------------------------------------------------ Withdraw
\* withdraw_balance that stops at zero.
withdraw_balance_clamped(b, amount) == IF amount > b THEN 0 ELSE b - amount

\* account.balance -= amount
withdraw_balance(b, amount) == b - amount

WithdrawMoneyView_get_initial == WITHDRAWAL

WithdrawMoneyView_form_valid(bal, led, acct, amount, store, mail) ==
    LET nb == [bal EXCEPT ![acct] = withdraw_balance(bal[acct], amount)]
        m == send_transaction_email(mail)
    IN  IF store = "balance_write_fails"
        THEN Outcome(bal, led, "fault", "none", "none", "balance_write_failed")
        ELSE IF m.raised
        THEN Outcome(nb, led, "fault", "success", m.log, "ok")
        ELSE IF store = "record_write_fails"
        THEN Outcome(nb, led, "fault", "success", m.log, "record_write_failed")
        ELSE Outcome(nb,
                     form_save(led, acct, amount, WithdrawMoneyView_get_initial, nb[acct]),
                     "success", "success", m.log, "ok")

\* ------------------------------------------------------------ RequestLoan
\* if loan_count >= 3
loan_limit_reached(led, acct) == loan_count(led, acct) >= LoanLimit

LoanRequestView_get_initial == LOAN

\* LoanRequestView.form_valid crediting the amount at request time.
LoanRequestView_form_valid_disburses(bal, led, acct, amount, store, mail) ==
    LET m == send_transaction_email(mail)
        nb == [bal EXCEPT ![acct] = bal[acct] + amount]
    IN  IF loan_limit_reached(led, acct)
        THEN Outcome(bal, led, "rejected", "loan_limit", "none", "none")
        ELSE IF m.raised
        THEN Outcome(bal, led, "fault", "success", m.log, "none")
        ELSE IF store = "record_write_fails"
        THEN Outcome(bal, led, "fault", "success", m.log, "record_write_failed")
        ELSE Outcome(nb,
                     form_save(led, acct, amount, LoanRequestView_get_initial, nb[acct]),
                     "success", "success", m.log, "ok")

LoanRequestView_form_valid(bal, led, acct, amount, store, mail) ==
    LET m == send_transaction_email(mail)
    IN  IF loan_limit_reached(led, acct)
        THEN Outcome(bal, led, "rejected", "loan_limit", "none", "none")
        ELSE IF m.raised
        THEN Outcome(bal, led, "fault", "success", m.log, "none")
        ELSE IF store = "record_write_fails"
        THEN Outcome(bal, led, "fault", "success", m.log, "record_write_failed")
        ELSE Outcome(bal,
                     form_save(led, acct, amount, LoanRequestView_get_initial, bal[acct]),
                     "success", "success", m.log, "ok")

\* ------------------------------------------------------------ PayLoan
\* PayLoanView.get(request, loan_id): requester is the account of request.user.
\* account = loan.account, with a variant taking the requester's account.
loan_account_of_requester(requester, loan) == requester

\* account = loan.account
loan_account(requester, loan) == loan.account

\* PayLoanView.get without the approval test.
is_approved_unchecked(loan) == TRUE

\* if loan.loan_approve
is_approved(loan) == loan.loan_approve

\* PayLoanView.get without the balance test.
can_pay_unchecked(b, amount) == TRUE

\* if account.balance >= loan.amount
can_pay(b, amount) == b >= amount

\* loan.save() inserting a new row instead of updating the loan's row.
loan_save_inserts(led, id, newbal) ==
    Append(led, [led[id] EXCEPT !.type = LOAN_PAID,
                                !.balance_after_transaction = newbal])

\* loan.transaction_type = LOAN_PAID
\* loan.balance_after_transaction = account.balance ; loan.save()
loan_save(led, id, newbal) ==
    [led EXCEPT ![id].type = LOAN_PAID,
                ![id].balance_after_transaction = newbal]

\* PayLoanView.get with the two writes in one transaction: a failing row
\* write takes the balance write back.
PayLoanView_get_atomic(requester, bal, led, id, store) ==
    IF id \notin DOMAIN led
    THEN Outcome(bal, led, "not_found", "none", "none", "none")
    ELSE
    LET loan == led[id]
        acct == loan_account(requester, loan)
        nb == [bal EXCEPT ![acct] = bal[acct] - loan.amount]
    IN  IF is_approved(loan)
        THEN IF can_pay(bal[acct], loan.amount)
             THEN IF store = "balance_write_fails"
                  THEN Outcome(bal, led, "failed", "error", "none", "balance_write_failed")
                  ELSE IF store = "record_write_fails"
                  THEN Outcome(bal, led, "failed", "error", "none", "record_write_failed")
                  ELSE Outcome(nb, loan_save(led, id, nb[acct]), "success", "none", "none", "ok")
             ELSE Outcome(bal, led, "failed", "insufficient_balance", "none", "none")
        ELSE Outcome(bal, led, "no_op", "none", "none", "none")

PayLoanView_get(requester, bal, led, id, store) ==
    IF id \notin DOMAIN led
    THEN Outcome(bal, led, "not_found", "none", "none", "none")
    ELSE
    LET loan == led[id]
        acct == loan_account(requester, loan)
        nb == [bal EXCEPT ![acct] = bal[acct] - loan.amount]
    IN  IF is_approved(loan)
        THEN IF can_pay(bal[acct], loan.amount)
             THEN IF store = "balance_write_fails"
                  THEN Outcome(bal, led, "failed", "error", "none", "balance_write_failed")
                  ELSE IF store = "record_write_fails"
                  THEN Outcome(nb, led, "failed", "error", "none", "record_write_failed")
                  ELSE Outcome(nb, loan_save(led, id, nb[acct]), "success", "none", "none", "ok")
             ELSE Outcome(bal, led, "failed", "insufficient_balance", "none", "none")
        ELSE Outcome(bal, led, "no_op", "none", "none", "none")

\* ------------------------------------------------------------ actions
Failed(r) == r.store \in {"balance_write_failed", "record_write_failed"}

\* The exploration is bounded: balances stay within MaxBalance of zero, at
\* most maxFaults requests meet a failing store write, and committed ledger
\* rows plus faulted requests number at most maxRecords.
InBounds(r, maxRecords, maxFaults) ==
    LET f == IF Failed(r) THEN faults + 1 ELSE faults
    IN  /\ \A a \in Accounts : r.balance[a] \in (0 - MaxBalance)..MaxBalance
        /\ f <= maxFaults
        /\ Len(r.ledger) + f <= maxRecords

Apply(r, op, acct, amount, id, maxRecords, maxFaults) ==
    /\ InBounds(r, maxRecords, maxFaults)
    /\ balance' = r.balance
    /\ ledger' = r.ledger
    /\ faults' = IF Failed(r) THEN faults + 1 ELSE faults
    /\ last' = [op |-> op, account |-> acct, amount |-> amount, loan |-> id,
                result |-> r.result, message |-> r.message,
                notify |-> r.notify, store |-> r.store]
    /\ UNCHANGED reqs

DepositStep(maxRecords, maxFaults) ==
    \E acct \in Accounts, amount \in Amounts, env \in RequestEnvs :
        Apply(DepositMoneyView_form_valid(balance, ledger, acct, amount,
                                          env[1], env[2]),
              "Deposit", acct, amount, 0, maxRecords, maxFaults)

WithdrawStep(maxRecords, maxFaults) ==
    \E acct \in Accounts, amount \in Amounts, env \in RequestEnvs :
        Apply(WithdrawMoneyView_form_valid(balance, ledger, acct, amount,
                                           env[1], env[2]),
              "Withdraw", acct, amount, 0, maxRecords, maxFaults)

RequestLoanStep(maxRecords, maxFaults) ==
    \E acct \in Accounts, amount \in Amounts, env \in LoanRequestEnvs :
        Apply(LoanRequestView_form_valid(balance, ledger, acct, amount,
                                         env[1], env[2]),
              "RequestLoan", acct, amount, 0, maxRecords, maxFaults)

PayLoanStep(maxRecords, maxFaults) ==
    \E requester \in Accounts, id \in 1..(Len(ledger) + 1),
       store \in StoreEnvs :
        Apply(PayLoanView_get(requester, balance, ledger, id, store),
              "PayLoan", requester, 0, id, maxRecords, maxFaults)

\* Approval of a pending loan by the bank's staff, outside the request
\* handlers: the record's loan_approve flag is set.
ApproveLoanStep(maxRecords, maxFaults) ==
    \E id \in DOMAIN ledger :
        /\ ledger[id].type = LOAN
        /\ ~ledger[id].loan_approve
        /\ Apply(Outcome(balance, [ledger EXCEPT ![id].loan_approve = TRUE],
                         "success", "none", "none", "ok"),
                 "ApproveLoan", ledger[id].account, ledger[id].amount, id,
                 maxRecords, maxFaults)

\* ------------------------------------------------ the transaction processor
Deposit == DepositStep(MaxRecords, MaxFaults)
Withdraw == WithdrawStep(MaxRecords, MaxFaults)
RequestLoan == RequestLoanStep(MaxRecords, MaxFaults)
PayLoan == PayLoanStep(MaxRecords, MaxFaults)
ApproveLoan == ApproveLoanStep(MaxRecords, MaxFaults)

Next == Deposit \/ Withdraw \/ RequestLoan \/ PayLoan \/ ApproveLoan

Spec == Init /\ [][Next]_vars

\* ------------------------------------------------------ the loan lifecycle
\* The loan operations alone, over a store that does not fail, for an account
\* that already holds approved loans one short of the limit: each of them was
\* requested with amount 1 at the opening balance and then approved.
ApprovedLoanRow ==
    [account |-> 1, amount |-> 1, type |-> LOAN, loan_approve |-> TRUE,
     balance_after_transaction |-> InitialBalance]

LoanInit ==
    /\ balance = [a \in Accounts |-> InitialBalance]
    /\ ledger = [i \in 1..(LoanLimit - 1) |-> ApprovedLoanRow]
    /\ last = NoOp
    /\ faults = 0
    /\ reqs = <<>>

LoanRequest == RequestLoanStep(MaxLoans, 0)
LoanApprove == ApproveLoanStep(MaxLoans, 0)
LoanPay == PayLoanStep(MaxLoans, 0)

LoanNext == LoanRequest \/ LoanApprove \/ LoanPay

LoanSpec == LoanInit /\ [][LoanNext]_vars

\* ---------------------------------------------------- the loan limit
\* Loan requests, approvals and payments from an empty ledger over a store
\* that does not fail, up to MaxCapLoans ledger rows.
CapRequest == RequestLoanStep(MaxCapLoans, 0)
CapApprove == ApproveLoanStep(MaxCapLoans, 0)
CapPay == PayLoanStep(MaxCapLoans, 0)

CapNext == CapRequest \/ CapApprove \/ CapPay

CapSpec == Init /\ [][CapNext]_vars

\* ------------------------------------------- requests served concurrently
\* The handlers take no lock and open no transaction: a request loads the
\* account (and, for PayLoan, the loan row) into memory, later writes the
\* balance field of that instance back, and later still writes its ledger
\* row. Between these store accesses another request may run. The store and
\* the notifier do not fail here.
Requests == {1, 2}
Payers == {1, 2, 3}

FormOps == {"Deposit", "Withdraw"}

\* A request slot: read is the balance the request loaded, mem the balance
\* field of its in-memory account instance.
Idle == [pc |-> "idle", op |-> "none", account |-> 0, amount |-> 0,
         loan |-> 0, read |-> 0, mem |-> 0, result |-> "none"]

\* account.balance of a handler that loads the account again before it
\* computes.
account_balance_refreshed(stored, mem) == stored

\* account.balance: the field of the instance the handler loaded; the stored
\* value is not read again before save().
account_balance(stored, mem) == mem

\* account.balance += amount / account.balance -= amount /
\* account.balance -= loan.amount
computed_balance(op, b, amount) ==
    IF op = "Deposit" THEN deposit_balance(b, amount)
    ELSE IF op = "Withdraw" THEN withdraw_balance(b, amount)
    ELSE b - amount

\* account = self.request.user.account
LoadForm(s, op, acct, amount) ==
    /\ reqs[s].pc = "idle"
    /\ reqs' = [reqs EXCEPT ![s] =
                   [pc |-> "loaded", op |-> op, account |-> acct,
                    amount |-> amount, loan |-> 0, read |-> balance[acct],
                    mem |-> balance[acct], result |-> "none"]]
    /\ UNCHANGED <<balance, ledger, last, faults>>

\* loan = get_object_or_404(Transaction, id=loan_id); account = loan.account
\* and the two tests, which read the loaded instances only.
LoadLoan(s, requester, id) ==
    LET loan == ledger[id]
        acct == loan_account(requester, loan)
        r == [pc |-> "loaded", op |-> "PayLoan", account |-> acct,
              amount |-> loan.amount, loan |-> id, read |-> balance[acct],
              mem |-> balance[acct], result |-> "none"]
    IN  /\ reqs[s].pc = "idle"
        /\ reqs' = [reqs EXCEPT ![s] =
                       IF ~is_approved(loan)
                       THEN [r EXCEPT !.pc = "done", !.result = "no_op"]
                       ELSE IF ~can_pay(r.mem, loan.amount)
                       THEN [r EXCEPT !.pc = "done", !.result = "failed"]
                       ELSE r]
        /\ UNCHANGED <<balance, ledger, last, faults>>

LoadFormStep ==
    \E s \in DOMAIN reqs, op \in FormOps, acct \in Accounts,
       amount \in Amounts :
        LoadForm(s, op, acct, amount)

LoadLoanStep ==
    \E s \in DOMAIN reqs, requester \in Accounts, id \in DOMAIN ledger :
        LoadLoan(s, requester, id)

\* account.balance (+/-)= amount ; account.save(update_fields=["balance"])
ConcSaveStep ==
    \E s \in DOMAIN reqs :
        LET r == reqs[s]
            nb == computed_balance(r.op,
                                   account_balance(balance[r.account], r.mem),
                                   r.amount)
        IN  /\ r.pc = "loaded"
            /\ balance' = [balance EXCEPT ![r.account] = nb]
            /\ reqs' = [reqs EXCEPT ![s].pc = "saved", ![s].mem = nb]
            /\ UNCHANGED <<ledger, last, faults>>

\* super().form_valid(form), or loan.save() for PayLoan: the ledger row is
\* written with the balance of the in-memory account.
ConcRecordStep ==
    \E s \in DOMAIN reqs :
        LET r == reqs[s]
        IN  /\ r.pc = "saved"
            /\ ledger' =
                 IF r.op = "Deposit"
                 THEN form_save(ledger, r.account, r.amount,
                                DepositMoneyView_get_initial, r.mem)
                 ELSE IF r.op = "Withdraw"
                 THEN form_save(ledger, r.account, r.amount,
                                WithdrawMoneyView_get_initial, r.mem)
                 ELSE loan_save(ledger, r.loan, r.mem)
            /\ reqs' = [reqs EXCEPT ![s].pc = "done", ![s].result = "success"]
            /\ UNCHANGED <<balance, last, faults>>

\* Two requests among Deposit, Withdraw and PayLoan, for an account that
\* holds two approved loans.
ConcInit ==
    /\ balance = [a \in Accounts |-> InitialBalance]
    /\ ledger = [i \in 1..(LoanLimit - 1) |-> ApprovedLoanRow]
    /\ last = NoOp
    /\ faults = 0
    /\ reqs = [s \in Requests |-> Idle]

ConcLoadForm == LoadFormStep
ConcLoadLoan == LoadLoanStep
ConcSave == ConcSaveStep
ConcRecord == ConcRecordStep

ConcNext == ConcLoadForm \/ ConcLoadLoan \/ ConcSave \/ ConcRecord

ConcSpec == ConcInit /\ [][ConcNext]_vars

\* Three PayLoan requests and nothing else, for the same account.
PayInit ==
    /\ balance = [a \in Accounts |-> InitialBalance]
    /\ ledger = [i \in 1..(LoanLimit - 1) |-> ApprovedLoanRow]
    /\ last = NoOp
    /\ faults = 0
    /\ reqs = [s \in Payers |-> Idle]

PayLoad == LoadLoanStep
PaySave == ConcSaveStep
PayRecord == ConcRecordStep

PayNext == PayLoad \/ PaySave \/ PayRecord

PaySpec == PayInit /\ [][PayNext]_vars

\* ------------------------------------------------ the transaction report
\* TransactionReportView.get_queryset is a function of the ledger, the
\* account of the logged-in user and the two query parameters. Dates are
\* <<year, month, day>>; a timestamp is a date and an hour of that day.
MaxRows == 3

Days == {<<2024, 1, 31>>, <<2024, 2, 1>>, <<2024, 2, 2>>}
\* The times at which rows are made: the eve of the middle day, its midnight
\* and its noon, and the midnight after it.
Stamps ==
    {[date |-> <<2024, 1, 31>>, hour |-> 12],
     [date |-> <<2024, 2, 1>>, hour |-> 0],
     [date |-> <<2024, 2, 1>>, hour |-> 12],
     [date |-> <<2024, 2, 2>>, hour |-> 0]}

DateLE(d, e) ==
    \/ d[1] < e[1]
    \/ d[1] = e[1] /\ d[2] < e[2]
    \/ d[1] = e[1] /\ d[2] = e[2] /\ d[3] <= e[3]

StampLE(t, u) ==
    \/ t.date # u.date /\ DateLE(t.date, u.date)
    \/ t.date = u.date /\ t.hour <= u.hour

\* A query parameter: absent (request.GET.get gives None) or a text, held as
\* the numbers between its "-" separators; the empty text has none.
None == [given |-> FALSE, text |-> <<>>]
Text(t) == [given |-> TRUE, text |-> t]
Params == {None, Text(<<>>), Text(<<2024, 2, 30>>)} \cup {Text(d) : d \in Days}

\* the truth value of a query parameter in "if start_date and end_date"
truthy(p) == p.given /\ p.text # <<>>

IsLeap(y) == y % 4 = 0 /\ (y % 100 # 0 \/ y % 400 = 0)

DaysInMonth(y, m) ==
    IF m = 2 THEN (IF IsLeap(y) THEN 29 ELSE 28)
    ELSE IF m \in {4, 6, 9, 11} THEN 30 ELSE 31

\* datetime.strptime(text, "%Y-%m-%d").date(): a ValueError unless the text
\* is a year, a month and a day of that month.
strptime(t) ==
    IF /\ Len(t) = 3
       /\ t[1] \in 1..9999
       /\ t[2] \in 1..12
       /\ t[3] \in 1..DaysInMonth(t[1], t[2])
    THEN [raised |-> FALSE, date |-> <<t[1], t[2], t[3]>>]
    ELSE [raised |-> TRUE, date |-> <<>>]

\* The range test applied to the timestamp itself, the bounds taken at
\* midnight.
in_date_range_of_datetime(ts, start, end) ==
    /\ StampLE([date |-> start, hour |-> 0], ts)
    /\ StampLE(ts, [date |-> end, hour |-> 0])

\* filter(timestamp__date__range=(start, end)): the date of the timestamp
\* lies between start and end, both included.
in_date_range(ts, start, end) ==
    DateLE(start, ts.date) /\ DateLE(ts.date, end)

\* get_queryset: the ids of the rows returned, or the ValueError of strptime.
get_queryset(led, acct, start_date, end_date) ==
    LET queryset == {i \in DOMAIN led : led[i].account = acct}
        start == strptime(start_date.text)
        end == strptime(end_date.text)
    IN  IF truthy(start_date) /\ truthy(end_date)
        THEN IF start.raised \/ end.raised
             THEN [raised |-> TRUE, rows |-> {}]
             ELSE [raised |-> FALSE,
                   rows |-> {i \in queryset :
                       in_date_range(led[i].timestamp, start.date, end.date)}]
        ELSE [raised |-> FALSE, rows |-> queryset]

\* The ledger row of a loan request of amount 1 made at time ts.
StampedRow(acct, ts) ==
    form_save(<<>>, acct, 1, LoanRequestView_get_initial, InitialBalance)[1]
        @@ [timestamp |-> ts]

\* Ledgers of up to MaxRows loan requests, in the order they were made.
ReportLedgers ==
    LET rows == {StampedRow(a, ts) : a \in Accounts, ts \in Stamps}
        seqs == UNION {[1..n -> rows] : n \in 0..MaxRows}
    IN  {l \in seqs : \A i \in DOMAIN l : \A j \in DOMAIN l :
            i <= j => StampLE(l[i].timestamp, l[j].timestamp)}

ReportInit ==
    /\ balance = [a \in Accounts |-> InitialBalance]
    /\ ledger \in ReportLedgers
    /\ last = NoOp
    /\ faults = 0
    /\ reqs = <<>>

ListTransactions ==
    \E acct \in Accounts, start_date \in Params, end_date \in Params :
        LET q == get_queryset(ledger, acct, start_date, end_date)
        IN  /\ last' = [op |-> "ListTransactions", account |-> acct,
                        start_date |-> start_date, end_date |-> end_date,
                        result |-> IF q.raised THEN "fault" ELSE "success",
                        rows |-> q.rows]
            /\ UNCHANGED <<balance, ledger, faults, reqs>>

ReportNext == ListTransactions

ReportSpec == ReportInit /\ [][ReportNext]_vars

\* ================================================================ claims
\* led2 is led with exactly one row appended, for account acct, of the given
\* type and amount.
AppendsOne(led, led2, acct, type, amount) ==
    /\ Len(led2) = Len(led) + 1
    /\ SubSeq(led2, 1, Len(led)) = led
    /\ led2[Len(led2)].account = acct
    /\ led2[Len(led2)].type = type
    /\ led2[Len(led2)].amount = amount

ApprovedLoans(led, acct) ==
    {i \in DOMAIN led :
        led[i].account = acct /\ led[i].type = "LOAN" /\ led[i].loan_approve = TRUE}

\* C1: a successful Deposit(A, a) increases A's balance by exactly a and
\* appends exactly one DEPOSIT record for A of amount a whose
\* balance_after_transaction is A's balance after the operation.
C1_DepositEffect ==
    [][(last'.op = "Deposit" /\ last'.result = "success") =>
        LET A == last'.account
            a == last'.amount
        IN  /\ a > 0
            /\ balance' = [balance EXCEPT ![A] = balance[A] + a]
            /\ AppendsOne(ledger, ledger', A, "DEPOSIT", a)
            /\ ledger'[Len(ledger')].balance_after_transaction = balance'[A]]_vars

C1_Witness ==
    /\ last.op = "Deposit"
    /\ last.result = "success"
    /\ Len(ledger) = 2
    /\ ledger[2].type = "DEPOSIT"

\* C2: Withdraw(A, a) whose store writes succeed is never rejected: it
\* decreases A's balance by exactly a, also below zero, and appends exactly
\* one WITHDRAWAL record.
C2_WithdrawEffect ==
    [][(last'.op = "Withdraw" /\ last'.store = "ok") =>
        LET A == last'.account
            a == last'.amount
        IN  /\ last'.result = "success"
            /\ balance' = [balance EXCEPT ![A] = balance[A] - a]
            /\ AppendsOne(ledger, ledger', A, "WITHDRAWAL", a)]_vars

C2_Witness ==
    /\ last.op = "Withdraw"
    /\ last.result = "success"
    /\ balance[last.account] < 0
    /\ ledger[Len(ledger)].type = "WITHDRAWAL"

\* C3: RequestLoan(A, a) is rejected iff A already has at least 3 records
\* with type LOAN and loan_approve = true; a rejection creates no record and
\* leaves the balances unchanged.
C3_LoanLimit ==
    [][(last'.op = "RequestLoan") =>
        /\ (last'.result = "rejected")
              <=> (Cardinality(ApprovedLoans(ledger, last'.account)) >= 3)
        /\ (last'.result = "rejected")
              => (ledger' = ledger /\ balance' = balance)]_vars

C3_Witness ==
    /\ last.op = "RequestLoan"
    /\ last.result = "rejected"
    /\ Cardinality(ApprovedLoans(ledger, last.account)) = 3

\* C4: PayLoan on an approved record L whose account's balance is at least
\* L.amount, with the store writes succeeding, decreases that balance by
\* exactly L.amount and rewrites L in place to type LOAN_PAID with the new
\* balance as snapshot; the number of records is unchanged.
C4_PayLoanEffect ==
    [][(/\ last'.op = "PayLoan"
        /\ last'.loan \in DOMAIN ledger
        /\ ledger[last'.loan].loan_approve
        /\ balance[ledger[last'.loan].account] >= ledger[last'.loan].amount
        /\ last'.store = "ok") =>
        LET id == last'.loan
            A == ledger[id].account
        IN  /\ last'.result = "success"
            /\ balance' = [balance EXCEPT ![A] = balance[A] - ledger[id].amount]
            /\ Len(ledger') = Len(ledger)
            /\ ledger' = [ledger EXCEPT
                            ![id].type = "LOAN_PAID",
                            ![id].balance_after_transaction = balance'[A]]]_vars

C4_Witness ==
    /\ last.op = "PayLoan"
    /\ last.result = "success"
    /\ ledger[last.loan].type = "LOAN_PAID"
    /\ ledger[last.loan].balance_after_transaction = balance[ledger[last.loan].account]

\* C5: PayLoan on an approved record whose account's balance is strictly less
\* than the loan amount changes no balance and no record and reports an
\* insufficient-balance error.
C5_PayLoanInsufficient ==
    [][(/\ last'.op = "PayLoan"
        /\ last'.loan \in DOMAIN ledger
        /\ ledger[last'.loan].loan_approve
        /\ balance[ledger[last'.loan].account] < ledger[last'.loan].amount) =>
        /\ balance' = balance
        /\ ledger' = ledger
        /\ last'.message = "insufficient_balance"]_vars

C5_Witness ==
    /\ last.op = "PayLoan"
    /\ last.message = "insufficient_balance"
    /\ ledger[last.loan].loan_approve
    /\ balance[ledger[last.loan].account] < ledger[last.loan].amount

\* C6: PayLoan on a record whose loan_approve flag is false changes no
\* balance and no record and reports no error, whatever the balance and the
\* loan amount are.
C6_PayLoanUnapproved ==
    [][(/\ last'.op = "PayLoan"
        /\ last'.loan \in DOMAIN ledger
        /\ ~ledger[last'.loan].loan_approve) =>
        /\ balance' = balance
        /\ ledger' = ledger
        /\ last'.result = "no_op"
        /\ last'.message = "none"]_vars

C6_Witness ==
    /\ last.op = "PayLoan"
    /\ last.result = "no_op"
    /\ ledger[last.loan].type = "LOAN"
    /\ ~ledger[last.loan].loan_approve
    /\ balance[ledger[last.loan].account] >= ledger[last.loan].amount

\* C7: an accepted RequestLoan(A, a) creates exactly one record for A with
\* type LOAN, amount a and loan_approve = false, and leaves every balance and
\* every existing record unchanged.
C7_RequestLoanEffect ==
    [][(last'.op = "RequestLoan" /\ last'.result = "success") =>
        /\ balance' = balance
        /\ AppendsOne(ledger, ledger', last'.account, "LOAN", last'.amount)
        /\ ledger'[Len(ledger')].loan_approve = FALSE]_vars

C7_Witness ==
    /\ last.op = "RequestLoan"
    /\ last.result = "success"
    /\ Len(ledger) = 2
    /\ ledger[2].type = "LOAN"
    /\ ~ledger[2].loan_approve

\* The signed effect of one ledger row on its account's balance: + amount for
\* a DEPOSIT, - amount for a WITHDRAWAL, - amount for a LOAN_PAID row.  No
\* operation of the processor disburses a loan, so a LOAN row carries none.
SignedEffect(row) ==
    CASE row.type = "DEPOSIT" -> row.amount
      [] row.type = "WITHDRAWAL" -> 0 - row.amount
      [] row.type = "LOAN_PAID" -> 0 - row.amount
      [] OTHER -> 0

RECURSIVE LedgerSum(_, _, _)
LedgerSum(led, acct, n) ==
    IF n = 0 THEN 0
    ELSE LedgerSum(led, acct, n - 1)
         + (IF led[n].account = acct THEN SignedEffect(led[n]) ELSE 0)

\* C8: in every reachable state each account's balance equals its initial
\* balance plus the sum of the signed effects of its ledger records.
C8_BalanceIsLedgerSum ==
    \A a \in Accounts :
        balance[a] = InitialBalance + LedgerSum(ledger, a, Len(ledger))

\* The store environment a request met, read back from its recorded outcome.
StoreEnvOf(st) == IF st = "record_write_failed" THEN "record_write_fails" ELSE "ok"

\* What the handler of op does in the current state when the notification
\* is delivered.
WithDeliveredMail(op, acct, amount, store) ==
    CASE op = "Deposit" ->
            DepositMoneyView_form_valid(balance, ledger, acct, amount, store, GoodMail)
      [] op = "Withdraw" ->
            WithdrawMoneyView_form_valid(balance, ledger, acct, amount, store, GoodMail)
      [] OTHER ->
            LoanRequestView_form_valid(balance, ledger, acct, amount, store, GoodMail)

\* C9: for Deposit, Withdraw and RequestLoan a failure of the notifier
\* (no recipient email, template or transport error) leaves the outcome as
\* it is when the notification is delivered: same balances, same ledger,
\* same result and message; the committed balance change stays.
C9_NotifierFailureSwallowed ==
    [][(/\ last'.op \in {"Deposit", "Withdraw", "RequestLoan"}
        /\ last'.notify \in {"error", "skipped"}) =>
        LET A == last'.account
            a == last'.amount
            g == WithDeliveredMail(last'.op, A, a, StoreEnvOf(last'.store))
        IN  /\ balance' = g.balance
            /\ ledger' = g.ledger
            /\ last'.result = g.result
            /\ last'.message = g.message
            /\ last'.store = g.store
            /\ last'.op = "Deposit" => balance'[A] = balance[A] + a
            /\ last'.op = "Withdraw" => balance'[A] = balance[A] - a
            /\ last'.op = "RequestLoan" => balance'[A] = balance[A]]_vars

C9_Witness ==
    /\ last.op = "Deposit"
    /\ last.notify = "error"
    /\ last.result = "success"
    /\ ledger[Len(ledger)].type = "DEPOSIT"
    /\ ledger[Len(ledger)].balance_after_transaction = balance[last.account]

\* C10: for Deposit, Withdraw and PayLoan a failing write of the balance is
\* caught in the handler and answered with an error message and a redirect;
\* it never leaves the handler as an unhandled exception.
C10_BalanceWriteFailureCaught ==
    (/\ last.op \in {"Deposit", "Withdraw", "PayLoan"}
     /\ last.store = "balance_write_failed") =>
        (last.result = "failed" /\ last.message = "error")

\* C11: a Deposit whose balance write raises reports a failure, creates no
\* DEPOSIT record and leaves the stored balance unchanged; and a Deposit that
\* committed its balance change has appended its DEPOSIT record.
C11_DepositRecordNeverMissing ==
    [][(last'.op = "Deposit") =>
        /\ (last'.store = "balance_write_failed") =>
              /\ last'.result = "failed"
              /\ last'.message = "error"
              /\ ledger' = ledger
              /\ balance' = balance
        /\ (balance' # balance) =>
              AppendsOne(ledger, ledger', last'.account, "DEPOSIT", last'.amount)]_vars

\* C14: when PayLoan's rewrite of the loan record raises after the balance
\* write succeeded, the request reports a failure, the balance stays
\* decremented by loan.amount and the ledger is as before (the record keeps
\* its type).
C14_PayLoanPartialFailure ==
    [][(last'.op = "PayLoan" /\ last'.store = "record_write_failed") =>
        LET id == last'.loan
            A == ledger[id].account
        IN  /\ last'.result = "failed"
            /\ last'.message = "error"
            /\ balance' = [balance EXCEPT ![A] = balance[A] - ledger[id].amount]
            /\ ledger' = ledger]_vars

C14_Witness ==
    /\ last.op = "PayLoan"
    /\ last.store = "record_write_failed"
    /\ last.result = "failed"
    /\ ledger[last.loan].type = "LOAN"
    /\ ledger[last.loan].loan_approve
    /\ balance[ledger[last.loan].account] = InitialBalance - ledger[last.loan].amount

\* C16: a notification of Deposit, Withdraw or RequestLoan is delivered only
\* for a request that succeeded, that is whose ledger record was written.
C16_NotifiedOnlyAfterSuccess ==
    (/\ last.op \in {"Deposit", "Withdraw", "RequestLoan"}
     /\ last.notify = "sent") =>
        last.result = "success"

\* C15: PayLoan checks no ownership: invoked by requester R on an approved
\* loan record of another account B that B's balance covers, it debits B and
\* turns B's record into LOAN_PAID, and leaves R's balance and records as
\* they were.
C15_PayLoanNoOwnershipCheck ==
    [][(/\ last'.op = "PayLoan"
        /\ last'.loan \in DOMAIN ledger
        /\ ledger[last'.loan].account # last'.account
        /\ ledger[last'.loan].loan_approve
        /\ balance[ledger[last'.loan].account] >= ledger[last'.loan].amount
        /\ last'.store = "ok") =>
        LET id == last'.loan
            R == last'.account
            B == ledger[id].account
        IN  /\ last'.result = "success"
            /\ balance'[B] = balance[B] - ledger[id].amount
            /\ ledger'[id].type = "LOAN_PAID"
            /\ ledger'[id].account = B
            /\ balance'[R] = balance[R]
            /\ Len(ledger') = Len(ledger)
            /\ \A i \in DOMAIN ledger :
                   ledger[i].account = R => ledger'[i] = ledger[i]]_vars

C15_Witness ==
    /\ last.op = "PayLoan"
    /\ last.result = "success"
    /\ ledger[last.loan].account # last.account
    /\ ledger[last.loan].type = "LOAN_PAID"
    /\ balance[last.account] = InitialBalance
    /\ balance[ledger[last.loan].account] < InitialBalance

\* C17: no reachable state has an account with more than 3 records of type
\* LOAN and loan_approve = true, under any sequence of RequestLoan, approval
\* and PayLoan.
C17_LoanCapInvariant ==
    \A a \in Accounts : Cardinality(ApprovedLoans(ledger, a)) <= 3

\* C18: a loan is paid at most once: PayLoan on a record that is already
\* LOAN_PAID changes no balance and no record.
C18_PaidAtMostOnce ==
    [][(/\ last'.op = "PayLoan"
        /\ last'.loan \in DOMAIN ledger
        /\ ledger[last'.loan].type = "LOAN_PAID") =>
        (balance' = balance /\ ledger' = ledger)]_vars

\* The response of the handler of request r when it is served alone on
\* balances bal and ledger led.
ServedAlone(r, bal, led) ==
    IF r.op = "Deposit"
    THEN DepositMoneyView_form_valid(bal, led, r.account, r.amount, "ok", GoodMail)
    ELSE IF r.op = "Withdraw"
    THEN WithdrawMoneyView_form_valid(bal, led, r.account, r.amount, "ok", GoodMail)
    ELSE PayLoanView_get(r.account, bal, led, r.loan, "ok")

\* The balances after request r1 and then request r2 are served one after
\* the other, starting where the concurrent requests start.
SerialBalance(r1, r2) ==
    LET b0 == [a \in Accounts |-> InitialBalance]
        l0 == [i \in 1..(LoanLimit - 1) |-> ApprovedLoanRow]
        o1 == ServedAlone(r1, b0, l0)
    IN  ServedAlone(r2, o1.balance, o1.ledger).balance

\* C12: a Deposit, Withdraw or PayLoan request writes back the balance it
\* computed from its own earlier read, whatever was stored in between, and
\* nothing keeps another request from running between the read and the
\* write; a completed pair of such requests on one account can therefore end
\* with a balance that neither serial order gives (C12_Witness).
C12_StaleWriteBack ==
    [][\A s \in DOMAIN reqs :
        (reqs[s].pc = "loaded" /\ reqs'[s].pc = "saved") =>
            LET r == reqs[s]
            IN  /\ balance'[r.account] = computed_balance(r.op, r.read, r.amount)
                /\ \A a \in Accounts \ {r.account} : balance'[a] = balance[a]]_vars

C12_Witness ==
    /\ DOMAIN reqs = Requests
    /\ \A s \in Requests : reqs[s].pc = "done" /\ reqs[s].result = "success"
    /\ reqs[1].account = reqs[2].account
    /\ balance # SerialBalance(reqs[1], reqs[2])
    /\ balance # SerialBalance(reqs[2], reqs[1])

\* C19: PayLoan requests alone, one after the other or interleaved, on the
\* same or on different loans of an account, never leave a balance below
\* zero when it was not below zero before them.
C19_PayLoanNonNegative ==
    DOMAIN reqs = Payers => \A a \in Accounts : balance[a] >= 0

C19_Witness ==
    /\ DOMAIN reqs = Payers
    /\ \A s \in Payers : reqs[s].pc = "done"
    /\ \E s, t \in Payers :
        /\ s # t
        /\ reqs[s].result = "success" /\ reqs[t].result = "success"
        /\ reqs[s].account = reqs[t].account
        /\ reqs[s].read = reqs[t].read
        /\ reqs[s].loan # reqs[t].loan
    /\ \A a \in Accounts : balance[a] >= 0

\* The number of the day d of 2024 counted from 1 January.
DayOfYear(d) ==
    LET before == [m \in 1..12 |->
            IF m = 1 THEN 0 ELSE IF m = 2 THEN 31 ELSE 60 + 30 * (m - 3)]
    IN  before[d[2]] + d[3]

\* C13: ListTransactions of account A with both bounds given as dates D1 and
\* D2 returns exactly the records of A whose timestamp's date is in
\* [D1, D2]; with either bound missing it returns all records of A; it never
\* returns a record of another account.
C13_ListTransactions ==
    (last.op = "ListTransactions" /\ last.result = "success") =>
        LET A == last.account
            own == {i \in DOMAIN ledger : ledger[i].account = A}
            D1 == last.start_date.text
            D2 == last.end_date.text
        IN  /\ last.rows \subseteq own
            /\ (D1 \in Days /\ D2 \in Days) =>
                  last.rows = {i \in own :
                      /\ DayOfYear(D1) <= DayOfYear(ledger[i].timestamp.date)
                      /\ DayOfYear(ledger[i].timestamp.date) <= DayOfYear(D2)}
            /\ (last.start_date \in {None, Text(<<>>)}
                    \/ last.end_date \in {None, Text(<<>>)}) =>
                  last.rows = own

C13_Witness ==
    /\ last.op = "ListTransactions" /\ last.result = "success"
    /\ last.start_date.text \in Days /\ last.end_date.text \in Days
    /\ last.start_date # last.end_date
    /\ \E i \in last.rows :
        ledger[i].timestamp.date = last.end_date.text
            /\ ledger[i].timestamp.hour > 0
    /\ \E i \in DOMAIN ledger : i \notin last.rows /\ ledger[i].account = last.account
    /\ \E i \in DOMAIN ledger : ledger[i].account # last.account
====
